---------------------------- MODULE Spec2Model ----------------------------
(***************************************************************************)
(* Model of python/aliases.py (the alias generator and its fix / check     *)
(* reconciler) and of the multi-part insert cache of a stream feature      *)
(* group that python/tests/test_feature_group_writer.py exercises.         *)
(*                                                                         *)
(* Strings are TLA+ strings, built and taken apart character by character, *)
(* so that rendering, sorting and path handling are computed the way the   *)
(* Python code computes them.  A path is the tuple of its parts relative   *)
(* to the root directory (pathlib's Path.parts without the root prefix).   *)
(***************************************************************************)
EXTENDS Integers, Sequences, FiniteSets, TLC

VARIABLES
    registered,   \* the Registry: registrations made by the imported modules, in order
    tree,         \* the file system below root: path -> file text, or Absent
    managed,      \* what the last call of collect_managed returned (or raised)
    out,          \* what the last command did: exit status, error, printed reports
    fg            \* the feature group object of the writer tests

vars == <<registered, tree, managed, out, fg>>

(***************************************************************************)
(* Bounds of the model.                                                    *)
(***************************************************************************)
MaxAliases == 2   \* registrations made during one discovery pass
MaxFiles == 2     \* files present in the tree before the first command
MaxInserts == 5   \* insert calls made on one feature group

(***************************************************************************)
(* Python values.                                                          *)
(***************************************************************************)
None == "<None>"
Absent == "<absent>"

\* Python truthiness of an optional string: None and "" are falsy
Truthy(v) == v # None /\ v # ""

(***************************************************************************)
(* Strings.                                                                *)
(***************************************************************************)
\* the characters of the names that are compared, in code point order
AsciiChars == ".0123456789ABCDEFGHIJKLMNOPQRSTUVWXYZ_abcdefghijklmnopqrstuvwxyz"

Char(s, k) == SubSeq(s, k, k)

Ord(c) == CHOOSE k \in 1..Len(AsciiChars) : Char(AsciiChars, k) = c

RECURSIVE StrLessFrom(_, _, _)
StrLessFrom(a, b, k) ==
    IF k > Len(a) THEN k <= Len(b)
    ELSE IF k > Len(b) THEN FALSE
    ELSE IF Char(a, k) = Char(b, k) THEN StrLessFrom(a, b, k + 1)
    ELSE Ord(Char(a, k)) < Ord(Char(b, k))

\* a < b on Python str: lexicographic by code point
StrLess(a, b) == StrLessFrom(a, b, 1)

\* s.find(sep, start - 1) + 1: the first position at or after start that
\* holds sep, 0 if there is none
Find(s, sep, start) ==
    LET hits == {k \in start..Len(s) : Char(s, k) = sep}
    IN  IF hits = {} THEN 0 ELSE CHOOSE k \in hits : \A j \in hits : k <= j

RECURSIVE SplitFrom(_, _, _)
SplitFrom(s, sep, start) ==
    LET k == Find(s, sep, start)
    IN  IF k = 0 THEN <<SubSeq(s, start, Len(s))>>
        ELSE <<SubSeq(s, start, k - 1)>> \o SplitFrom(s, sep, k + 1)

\* s.split(sep) for a one-character separator
Split(s, sep) == SplitFrom(s, sep, 1)

\* s.rfind(c) + 1: the last position that holds c, 0 if there is none
RFind(s, c) ==
    LET hits == {k \in 1..Len(s) : Char(s, k) = c}
    IN  IF hits = {} THEN 0 ELSE CHOOSE k \in hits : \A j \in hits : j <= k

\* PurePath.suffix of a file name: from the last dot on, unless the dot is
\* the first or the last character
Suffix(name) ==
    LET d == RFind(name, ".")
    IN  IF 1 < d /\ d < Len(name) THEN SubSeq(name, d, Len(name)) ELSE ""

(***************************************************************************)
(* Paths (tuples of parts, relative to root).                              *)
(***************************************************************************)
SOURCES == << <<"hopsworks", "__init__.py">>, <<"hopsworks", "connection.py">>,
              <<"hopsworks", "internal">>, <<"hopsworks", "platform">>,
              <<"hopsworks", "fs">>, <<"hopsworks", "ml">> >>

IGNORED == << <<"tests">>, <<"hsfs">>, <<"hopsworks">>, <<"hsml">>,
              <<"hopsworks_common">>, <<"hopsworks.egg-info">> >>

\* path.is_relative_to(p): p is a prefix of path, part by part
IsRelativeTo(path, p) ==
    Len(p) <= Len(path) /\ SubSeq(path, 1, Len(p)) = p

Name(path) == path[Len(path)]

\* root / pkg.replace(".", "/") / "__init__.py"
PkgPath(pkg) == Split(pkg, ".") \o <<"__init__.py">>


(***************************************************************************)
(* The Registry (hopsworks.internal.aliases).  A registration either makes *)
(* a destination package known or declares an alias in it; a declaration   *)
(* is the tuple (from_module, import_name, in_module options) that         *)
(* collect_managed unpacks as (f, i, im).                                  *)
(***************************************************************************)
InModule(as_alias, deprecated, available_until) ==
    [as_alias |-> as_alias, deprecated |-> deprecated,
     available_until |-> available_until]

PackageReg(pkg) == [kind |-> "package", pkg |-> pkg]
AliasReg(pkg, decl) == [kind |-> "alias", pkg |-> pkg, decl |-> decl]

\* index of the entry of key k in an insertion-ordered dict, 0 if there is none
DictIndex(d, k) ==
    IF \E n \in 1..Len(d) : d[n][1] = k
    THEN CHOOSE n \in 1..Len(d) : d[n][1] = k
    ELSE 0

DictKeys(d) == {d[n][1] : n \in 1..Len(d)}

DictGet(d, k) == d[DictIndex(d, k)][2]

\* d[k] = v on an insertion-ordered dict
DictSet(d, k, v) ==
    IF DictIndex(d, k) = 0 THEN Append(d, <<k, v>>)
    ELSE [d EXCEPT ![DictIndex(d, k)] = <<k, v>>]

InSeq(x, s) == \E n \in 1..Len(s) : s[n] = x

RECURSIVE get_modules_from(_, _, _)
get_modules_from(regs, n, modules) ==
    IF n > Len(regs) THEN modules
    ELSE LET r == regs[n]
             known == IF DictIndex(modules, r.pkg) = 0
                      THEN DictSet(modules, r.pkg, <<>>) ELSE modules
             old == DictGet(known, r.pkg)
         IN  get_modules_from(regs, n + 1,
                 IF r.kind = "alias" /\ ~InSeq(r.decl, old)
                 THEN DictSet(known, r.pkg, Append(old, r.decl))
                 ELSE known)

\* Registry.get_modules(): destination package -> its declarations, in the
\* order they were registered
get_modules(regs) == get_modules_from(regs, 1, <<>>)

\* collect_aliases(root): the modules under SOURCES are imported, which
\* fills the Registry, and the Registry's mapping is returned
collect_aliases == get_modules(registered)

(***************************************************************************)
(* imports.sort(): the list of (f, i, im) tuples is sorted as Python       *)
(* tuples, element by element.                                             *)
(***************************************************************************)
\* im1 < im2 is reached only when the options differ; the options object
\* defines no ordering, so the comparison raises TypeError
ImCompare(im1, im2) == IF im1 = im2 THEN "eq" ELSE "TypeError"

TupleCompare(x, y) ==
    IF x[1] # y[1] THEN (IF StrLess(x[1], y[1]) THEN "lt" ELSE "gt")
    ELSE IF x[2] # y[2] THEN (IF StrLess(x[2], y[2]) THEN "lt" ELSE "gt")
    ELSE ImCompare(x[3], y[3])

RECURSIVE InsertSorted(_, _)
InsertSorted(sorted, x) ==
    IF sorted = <<>> THEN <<x>>
    ELSE IF TupleCompare(x, Head(sorted)) = "lt" THEN <<x>> \o sorted
    ELSE <<Head(sorted)>> \o InsertSorted(Tail(sorted), x)

RECURSIVE InsertionSort(_)
InsertionSort(s) ==
    IF s = <<>> THEN <<>>
    ELSE InsertSorted(InsertionSort(SubSeq(s, 1, Len(s) - 1)), s[Len(s)])

\* the list is left in the order of registration
SortImportsSkipped(imports) == [error |-> "none", list |-> imports]

\* the sorted list, or TypeError when two tuples can only be told apart by
\* comparing their options
SortImports(imports) ==
    IF \E a, b \in 1..Len(imports) :
           a < b /\ TupleCompare(imports[a], imports[b]) = "TypeError"
    THEN [error |-> "TypeError", list |-> <<>>]
    ELSE [error |-> "none", list |-> InsertionSort(imports)]

(***************************************************************************)
(* collect_managed: the text of every managed file.                        *)
(***************************************************************************)
Header ==
    "# ruff: noqa\n"
    \o "# This file is generated by aliases.py. Do not edit it manually!\n"

AliasesModule == "hopsworks.internal.aliases"

ImportLine(f) == "import " \o f \o "\n"

\* alias = im.as_alias if im.as_alias else i
AliasName(i, im) == IF Truthy(im.as_alias) THEN im.as_alias ELSE i

\* f"{f}.{i}"
Original(f, i) == f \o "." \o i

\* f"hopsworks.internal.aliases.deprecated({available_until})({original})"
DeprecatedCall(available_until, original) ==
    AliasesModule \o ".deprecated(" \o available_until \o ")(" \o original \o ")"

\* f"{alias} = {original}\n"
BindingLine(alias, original) == alias \o " = " \o original \o "\n"

\* the right-hand side of the binding: im.available_until is tested, and
\* im.available.until is read to render it; the options have no attribute
\* `available`, so that read raises AttributeError
RightHandSide(f, i, im) ==
    IF im.deprecated
    THEN IF Truthy(im.available_until)
         THEN [error |-> "AttributeError", text |-> ""]
         ELSE [error |-> "none", text |-> DeprecatedCall("", Original(f, i))]
    ELSE [error |-> "none", text |-> Original(f, i)]

\* the import line is written for every declaration
NeedsImportAlways(f, imported_modules) == TRUE

\* if f not in imported_modules
NeedsImport(f, imported_modules) == f \notin imported_modules

\* the body of the loop over the sorted imports (lines 92-109).
\* declared_names is tested and never added to.
RECURSIVE EmitFrom(_, _, _, _, _)
EmitFrom(imports, n, content, imported_modules, declared_names) ==
    IF n > Len(imports) THEN [error |-> "none", content |-> content]
    ELSE LET f == imports[n][1]
             i == imports[n][2]
             im == imports[n][3]
             alias == AliasName(i, im)
             fresh == NeedsImport(f, imported_modules)
             withImport == IF fresh THEN content \o ImportLine(f) ELSE content
             rhs == RightHandSide(f, i, im)
         IN  IF alias \in declared_names
             THEN [error |-> "collision", content |-> content]
             ELSE IF rhs.error # "none"
             THEN [error |-> rhs.error, content |-> withImport]
             ELSE EmitFrom(imports, n + 1,
                           withImport \o BindingLine(alias, rhs.text),
                           imported_modules \cup {f}, declared_names)

\* the text of one destination package's __init__.py (lines 82-109)
PackageContent(imports) ==
    IF imports = <<>> THEN [error |-> "none", content |-> Header]
    ELSE LET sorted == SortImports(imports)
         IN  IF sorted.error # "none"
             THEN [error |-> sorted.error, content |-> ""]
             ELSE EmitFrom(sorted.list, 1, Header \o ImportLine(AliasesModule),
                           {AliasesModule}, {})

RECURSIVE CollectFrom(_, _, _)
CollectFrom(modules, n, result) ==
    IF n > Len(modules) THEN [error |-> "none", files |-> result]
    ELSE LET pc == PackageContent(modules[n][2])
         IN  IF pc.error # "none" THEN [error |-> pc.error, files |-> <<>>]
             ELSE CollectFrom(modules, n + 1,
                              DictSet(result, PkgPath(modules[n][1]), pc.content))

\* collect_managed(root) on the Registry's mapping: the dict of managed
\* file path -> text, or the error that ended the call
collect_managed_of(modules) == CollectFrom(modules, 1, <<>>)

collect_managed == collect_managed_of(collect_aliases)

(***************************************************************************)
(* The tree below root.                                                    *)
(***************************************************************************)
\* destination packages that modules register aliases in
Packages == {"pkg.sub", "hsfs"}

\* places where a file may be before the first command runs
FilePaths ==
    { <<"setup.py">>,                        \* directly inside root
      <<"hopsworks", "fs", "feature.py">>,   \* under a source root
      <<"hsfs", "__init__.py">>,             \* under an ignored path
      <<"pkg", "sub", "__init__.py">>,
      <<"pkg", "sub">>,                      \* a file where a package directory goes
      <<"pkg", "stray.txt">>,
      <<"pkg", "m.pyc">>,
      <<"pkg", "__pycache__", "m.txt">> }

AllPaths == FilePaths \cup {PkgPath(pkg) : pkg \in Packages}

\* text of a file that the generator did not write
Junk == "x = 1\n"

EmptyTree == [p \in AllPaths |-> Absent]

IsFile(t, p) == p \in DOMAIN t /\ t[p] # Absent

Files(t) == {p \in DOMAIN t : t[p] # Absent}

\* some proper ancestor of path is a regular file
Blocked(t, path) ==
    \E k \in 1..(Len(path) - 1) : IsFile(t, SubSeq(path, 1, k))

\* a file system: no file lies below another file
ValidTree(t) == \A p \in Files(t) : ~Blocked(t, p)

Trees ==
    {t \in [AllPaths -> {Absent, Junk}] :
        Cardinality(Files(t)) <= MaxFiles /\ ValidTree(t)}

\* ignored = [root / path for path in SOURCES + IGNORED]
IgnoredRoots == {(SOURCES \o IGNORED)[n] : n \in 1..Len(SOURCES \o IGNORED)}

UnderIgnored(path) == \E p \in IgnoredRoots : IsRelativeTo(path, p)

\* path.parent == root
TopLevel(path) == Len(path) = 1

(***************************************************************************)
(* How a command ends.                                                     *)
(***************************************************************************)
\* exit(1) and an uncaught exception both end the process with status 1;
\* returning from main ends it with status 0
ExitStatus(error, ok) == IF error = "none" /\ ok THEN 0 ELSE 1

NotCalled == [error |-> "not called", files |-> <<>>]

\* cmd: the command that ran last; after: the command that ran before it;
\* before: the tree as the command found it; reports: the errors check
\* printed; success: check printed "The aliases are correct!"
NoCommand ==
    [cmd |-> "none", after |-> "none", before |-> EmptyTree, exit |-> 0,
     error |-> "none", reports |-> {}, success |-> FALSE]

(***************************************************************************)
(* fix                                                                     *)
(***************************************************************************)
\* the text is added to what the file holds
AppendText(old, content) == IF old = Absent THEN content ELSE old \o content

\* filepath.write_text(content): the file's text becomes content
WriteText(old, content) == content

\* the loop over managed.items() (lines 115-118): mkdir of the parents
\* raises when one of them is a regular file
RECURSIVE WriteFrom(_, _, _)
WriteFrom(t, files, n) ==
    IF n > Len(files) THEN [error |-> "none", tree |-> t]
    ELSE LET path == files[n][1]
         IN  IF Blocked(t, path) THEN [error |-> "OSError", tree |-> t]
             ELSE WriteFrom([t EXCEPT ![path] = WriteText(t[path], files[n][2])],
                            files, n + 1)

\* the test of the ignored paths is left out
remove_if_excess_anywhere(path, files) ==
    ~TopLevel(path) /\ path \notin DictKeys(files)

\* remove_if_excess(path) unlinks the path (lines 121-127)
remove_if_excess(path, files) ==
    /\ ~TopLevel(path)
    /\ ~UnderIgnored(path)
    /\ path \notin DictKeys(files)

\* traverse(root, remove_if_excess)
RemoveExcess(t, files) ==
    [p \in DOMAIN t |-> IF IsFile(t, p) /\ remove_if_excess(p, files) THEN Absent ELSE t[p]]

FixResult(t, m) ==
    IF m.error # "none" THEN [error |-> m.error, tree |-> t]
    ELSE LET w == WriteFrom(t, m.files, 1)
         IN  IF w.error # "none" THEN w
             ELSE [error |-> "none", tree |-> RemoveExcess(w.tree, m.files)]

fix ==
    LET m == collect_managed
        r == FixResult(tree, m)
    IN  /\ managed' = m
        /\ tree' = r.tree
        /\ out' = [cmd |-> "fix", after |-> out.cmd, before |-> tree,
                   exit |-> ExitStatus(r.error, TRUE),
                   error |-> r.error, reports |-> {}, success |-> FALSE]
        /\ UNCHANGED <<registered, fg>>

(***************************************************************************)
(* check                                                                   *)
(***************************************************************************)
\* the loop over managed.items() (lines 136-143)
ManagedReports(t, files) ==
    {<<"should exist", files[n][1]>> :
        n \in {k \in 1..Len(files) : ~IsFile(t, files[k][1])}}
    \cup
    {<<"has wrong content", files[n][1]>> :
        n \in {k \in 1..Len(files) :
                  IsFile(t, files[k][1]) /\ t[files[k][1]] # files[k][2]}}

\* only the suffix is tested
IsBytecodeBySuffix(path) == Suffix(Name(path)) = ".pyc"

\* path.suffix == ".pyc" or "__pycache__" in path.parts
IsBytecode(path) ==
    Suffix(Name(path)) = ".pyc" \/ \E k \in 1..Len(path) : path[k] = "__pycache__"

\* check_file(path) records an error for the path (lines 146-154)
check_file(path, files) ==
    /\ ~(TopLevel(path) \/ UnderIgnored(path))
    /\ ~IsBytecode(path)
    /\ path \notin DictKeys(files)

\* traverse(root, check_file)
ExcessReports(t, files) ==
    {<<"shouldn't exist", p>> : p \in {q \in Files(t) : check_file(q, files)}}

CheckResult(t, m) ==
    IF m.error # "none"
    THEN [exit |-> ExitStatus(m.error, FALSE),
          error |-> m.error, reports |-> {}, success |-> FALSE]
    ELSE LET reports == ManagedReports(t, m.files) \cup ExcessReports(t, m.files)
             ok == reports = {}
         IN  [exit |-> ExitStatus("none", ok),
              error |-> "none", reports |-> reports, success |-> ok]

check ==
    LET m == collect_managed
    IN  /\ managed' = m
        /\ out' = [cmd |-> "check", after |-> out.cmd, before |-> tree]
                  @@ CheckResult(tree, m)
        /\ UNCHANGED <<registered, tree, fg>>

(***************************************************************************)
(* Discovery and generation.                                               *)
(***************************************************************************)
FromModules == {"pkg.impl", "pkg.util"}
ImportNames == {"Bar", "Foo"}
InModules ==
    { InModule(None, FALSE, None), InModule("Foo", FALSE, None),
      InModule(None, TRUE, None), InModule(None, TRUE, "4.0") }

Decls == {<<f, i, im>> : f \in FromModules, i \in ImportNames, im \in InModules}

\* registrations drawn when only the generator runs
GenRegs ==
    {PackageReg(pkg) : pkg \in Packages}
    \cup {AliasReg(pkg, d) : pkg \in Packages, d \in Decls}

\* registrations drawn when fix and check run on a tree
FixDecls ==
    { <<"pkg.impl", "Foo", InModule(None, FALSE, None)>>,
      <<"pkg.util", "Foo", InModule(None, FALSE, None)>>,
      <<"pkg.impl", "Bar", InModule(None, TRUE, "4.0")>> }

FixRegs ==
    {PackageReg(pkg) : pkg \in Packages}
    \cup {AliasReg(pkg, d) : pkg \in Packages, d \in FixDecls}

\* a module imported by collect_aliases registers with the Registry; every
\* run of the tool imports the same modules, so nothing is registered once
\* a command has run
Register(reg) ==
    /\ out.cmd = "none" /\ managed = NotCalled
    /\ Len(registered) < MaxAliases
    /\ ~InSeq(reg, registered)
    /\ registered' = Append(registered, reg)
    /\ UNCHANGED <<tree, managed, out, fg>>

\* a call of collect_managed on its own
Generate ==
    /\ managed = NotCalled
    /\ managed' = collect_managed
    /\ UNCHANGED <<registered, tree, out, fg>>

(***************************************************************************)
(* The feature group of the writer tests: the multi-part insert flag, the  *)
(* cached Kafka resources, and what the tests' mocks count.                *)
(***************************************************************************)
FeatureGroup(stream) ==
    [stream |-> stream,
     multi_part_insert |-> FALSE,
     kafka_producer |-> None, kafka_headers |-> None,
     feature_writers |-> None, writer |-> None,
     inserts |-> 0,          \* insert calls made on the feature group
     session_inserts |-> 0,  \* ... of the last multi-part insert
     session_inits |-> 0,    \* calls of _init_kafka_resources during it
     session_flushes |-> 0,  \* calls of producer.flush() during it
     plain_flushes |-> 0]    \* calls of producer.flush() by a plain insert

\* the flag is raised; a new multi-part insert starts when it was down
RaiseFlag(g) ==
    IF g.multi_part_insert THEN g
    ELSE [g EXCEPT !.multi_part_insert = TRUE, !.session_inserts = 0,
                   !.session_inits = 0, !.session_flushes = 0]

\* the resources are initialized on every write, cached or not
WriteKafkaUncached(g) ==
    LET inited == IF g.multi_part_insert
                  THEN [g EXCEPT !.session_inits = @ + 1,
                                 !.kafka_producer = "producer",
                                 !.kafka_headers = "headers",
                                 !.feature_writers = "feature_writers",
                                 !.writer = "writer"]
                  ELSE g
    IN  IF g.multi_part_insert THEN inited
        ELSE [inited EXCEPT !.plain_flushes = @ + 1]

\* the engine writes a dataframe of a stream feature group to Kafka: the
\* cached resources are used when the flag is up and they are there;
\* otherwise they are initialized, and cached when the flag is up (without
\* the flag the producer is flushed after the write and nothing is kept).
WriteKafka(g) ==
    LET cached == g.multi_part_insert /\ g.kafka_producer # None
        inited == IF cached \/ ~g.multi_part_insert THEN g
                  ELSE [g EXCEPT !.session_inits = @ + 1]
        kept == IF g.multi_part_insert /\ ~cached
                THEN [inited EXCEPT !.kafka_producer = "producer",
                                    !.kafka_headers = "headers",
                                    !.feature_writers = "feature_writers",
                                    !.writer = "writer"]
                ELSE inited
    IN  IF g.multi_part_insert THEN kept
        ELSE [kept EXCEPT !.plain_flushes = @ + 1]

\* FeatureGroup.insert(features)
InsertInto(g) ==
    LET counted == [g EXCEPT !.inserts = @ + 1,
                             !.session_inserts =
                                 IF g.multi_part_insert THEN @ + 1 ELSE @]
    IN  IF g.stream THEN WriteKafka(counted) ELSE counted

\* FeatureGroup.finalize_multi_part_insert()
Finalized(g) ==
    LET flushed == IF g.kafka_producer # None
                   THEN [g EXCEPT !.session_flushes = @ + 1] ELSE g
    IN  [flushed EXCEPT !.multi_part_insert = FALSE,
                        !.kafka_producer = None, !.kafka_headers = None,
                        !.feature_writers = None, !.writer = None]

\* fg.multi_part_insert() without features: the flag is raised and a
\* writer is returned
OpenWriter ==
    /\ fg' = RaiseFlag(fg)
    /\ UNCHANGED <<registered, tree, managed, out>>

\* fg.multi_part_insert(features), or writer.insert(features)
multi_part_insert ==
    /\ fg.inserts < MaxInserts
    /\ fg' = InsertInto(RaiseFlag(fg))
    /\ UNCHANGED <<registered, tree, managed, out>>

\* fg.insert(features)
insert ==
    /\ fg.inserts < MaxInserts
    /\ fg' = InsertInto(fg)
    /\ UNCHANGED <<registered, tree, managed, out>>

\* fg.finalize_multi_part_insert(), or leaving the writer's context
finalize_multi_part_insert ==
    /\ fg' = Finalized(fg)
    /\ UNCHANGED <<registered, tree, managed, out>>

FgInit == FeatureGroup(FALSE)

FgSpecInit ==
    /\ registered = <<>>
    /\ tree = EmptyTree
    /\ managed = NotCalled
    /\ out = NoCommand
    /\ fg \in {FeatureGroup(stream) : stream \in BOOLEAN}

FgNext ==
    \/ OpenWriter
    \/ multi_part_insert
    \/ insert
    \/ finalize_multi_part_insert

FgSpec == FgSpecInit /\ [][FgNext]_vars


Init ==
    /\ registered = <<>>
    /\ tree \in Trees
    /\ managed = NotCalled
    /\ out = NoCommand
    /\ fg = FgInit

Next ==
    \/ \E reg \in FixRegs : Register(reg)
    \/ fix
    \/ check

Spec == Init /\ [][Next]_vars

GenInit ==
    /\ registered = <<>>
    /\ tree = EmptyTree
    /\ managed = NotCalled
    /\ out = NoCommand
    /\ fg = FgInit

GenNext ==
    \/ \E reg \in GenRegs : Register(reg)
    \/ Generate

GenSpec == GenInit /\ [][GenNext]_vars

(***************************************************************************)
(* Vocabulary of the properties.                                           *)
(***************************************************************************)
\* two declarations of one destination package export the same name
CollidesIn(imports) ==
    \E a, b \in 1..Len(imports) :
        /\ a # b
        /\ AliasName(imports[a][2], imports[a][3])
               = AliasName(imports[b][2], imports[b][3])

HasCollision(modules) == \E n \in 1..Len(modules) : CollidesIn(modules[n][2])

\* a dict as the mapping it holds, whatever the order of insertion
AsMapping(d) == {d[n] : n \in 1..Len(d)}

\* the registrations in another order
Reorderings(regs) ==
    {[n \in 1..Len(regs) |-> regs[perm[n]]] : perm \in Permutations(1..Len(regs))}

\* the managed file of every registered destination package
ManagedPaths == {PkgPath(registered[n].pkg) : n \in 1..Len(registered)}

\* not a managed file, and outside all source roots and ignored paths
Stray(p) == p \notin ManagedPaths /\ ~UnderIgnored(p)

Reported(p) == \E r \in out.reports : r[2] = p

\* the lines of a text; the last element is "" when the text ends with "\n"
Lines(text) == Split(text, "\n")

HasPrefix(s, pre) == Len(pre) <= Len(s) /\ SubSeq(s, 1, Len(pre)) = pre

Words(line) == Split(line, " ")

IsImport(line) == Len(Words(line)) = 2 /\ Words(line)[1] = "import"

IsAssignment(line) ==
    /\ Len(Words(line)) = 3 /\ Words(line)[2] = "="
    /\ Words(line)[1] # "" /\ Words(line)[3] # ""

ImportedModule(line) == Words(line)[2]

\* the dotted reference an assignment binds, unwrapped from the
\* deprecation-marker call when there is one
Reference(line) ==
    LET rhs == Words(line)[3]
        parts == Split(rhs, "(")
    IN  IF Len(parts) = 1 THEN rhs
        ELSE SubSeq(parts[Len(parts)], 1, Len(parts[Len(parts)]) - 1)

\* the two header lines, then no blank line, and a newline at the very end
WellFramed(ls) ==
    /\ Len(ls) >= 3
    /\ ls[1] = "# ruff: noqa"
    /\ ls[2] = "# This file is generated by aliases.py. Do not edit it manually!"
    /\ ls[Len(ls)] = ""
    /\ \A k \in 1..(Len(ls) - 1) : ls[k] # ""

\* the lines between the header and the final newline
Body(ls) == SubSeq(ls, 3, Len(ls) - 1)

ImportsOnce(body) ==
    \A a, b \in 1..Len(body) :
        (a # b /\ IsImport(body[a]) /\ IsImport(body[b]))
            => ImportedModule(body[a]) # ImportedModule(body[b])

\* all import lines come first, all assignment lines after them
ImportsThenAssignments(body) ==
    \E k \in 0..Len(body) :
        /\ \A a \in 1..k : IsImport(body[a])
        /\ \A a \in (k + 1)..Len(body) : IsAssignment(body[a])

\* every line is an import or an assignment, and what an assignment refers
\* to is a member of a module imported on an earlier line
ImportedBeforeUse(body) ==
    \A a \in 1..Len(body) :
        \/ IsImport(body[a])
        \/ /\ IsAssignment(body[a])
           /\ \E b \in 1..(a - 1) :
                  /\ IsImport(body[b])
                  /\ HasPrefix(Reference(body[a]), ImportedModule(body[b]) \o ".")

GeneratedTexts == {managed.files[n][2] : n \in 1..Len(managed.files)}

(***************************************************************************)
(* Properties of fix and check (specification Spec).                      *)
(***************************************************************************)
\* C1: fix is idempotent: a fix that runs right after a fix, on the same
\* Registry, leaves the tree as it found it (the same files with the same
\* text), whether or not the Registry has alias collisions.
C1_FixIdempotent ==
    (out.cmd = "fix" /\ out.after = "fix") => tree = out.before

C1_Witness ==
    /\ out.cmd = "fix" /\ out.after = "fix" /\ out.error = "none"
    /\ ~HasCollision(collect_aliases)
    /\ \E n \in 1..Len(managed.files) :
           /\ tree[managed.files[n][1]] = managed.files[n][2]
           /\ managed.files[n][2] # Header
    /\ \E p \in Files(tree) : tree[p] = Junk

\* C2: round trip: when the Registry has no alias collision, a check that
\* runs right after a fix records no error, prints the success message and
\* does not exit with status 1.
C2_RoundTrip ==
    (out.cmd = "check" /\ out.after = "fix" /\ ~HasCollision(collect_aliases))
        => (out.reports = {} /\ out.success /\ out.exit # 1)

\* C5: exclusion, as claimed: a file under a path of SOURCES or IGNORED is
\* never deleted by fix and never reported by check.
C5_Exclusion ==
    /\ out.cmd = "fix" =>
           \A p \in Files(out.before) : UnderIgnored(p) => IsFile(tree, p)
    /\ out.cmd = "check" =>
           \A p \in Files(tree) : UnderIgnored(p) => ~Reported(p)

\* C5, amended: a file under a path of SOURCES or IGNORED is never deleted
\* by fix and never reported by check as a file that shouldn't exist; check
\* reports it only as having wrong content, and only when it is a managed
\* file whose text differs from the generated text.
C5_ExclusionAmended ==
    /\ out.cmd = "fix" =>
           \A p \in Files(out.before) : UnderIgnored(p) => IsFile(tree, p)
    /\ out.cmd = "check" =>
           \A p \in Files(tree) : \A r \in out.reports :
               (UnderIgnored(p) /\ r[2] = p) =>
                   /\ r[1] = "has wrong content"
                   /\ managed.error = "none"
                   /\ p \in DictKeys(managed.files)
                   /\ tree[p] # DictGet(managed.files, p)

C5_Witness ==
    /\ out.cmd = "check"
    /\ \E p \in Files(tree) : UnderIgnored(p) /\ Reported(p)
    /\ \E p \in Files(tree) : UnderIgnored(p) /\ ~Reported(p) /\ tree[p] = Junk

\* C6: stray files, as claimed: every file that is not managed and lies
\* outside all source roots and ignored paths is reported by check, which
\* exits with status 1, and is deleted by fix.
C6_StrayFiles ==
    /\ out.cmd = "check" =>
           \A p \in Files(tree) :
               Stray(p) => (out.exit = 1 /\ <<"shouldn't exist", p>> \in out.reports)
    /\ out.cmd = "fix" =>
           \A p \in Files(out.before) : Stray(p) => ~IsFile(tree, p)

\* C6, amended: a file directly inside root is neither reported nor
\* deleted.  Every other file that is not managed and lies outside all
\* source roots and ignored paths is deleted by a fix that completes, and
\* is reported by a check whose generation completes (which then exits
\* with status 1) unless its suffix is .pyc or one of its path components
\* is __pycache__: check skips those, fix deletes them.  A fix or a check
\* that an exception stops deletes nothing, reports nothing and exits
\* with status 1.
C6_StrayFilesAmended ==
    /\ out.cmd = "check" =>
           /\ out.error # "none" => (out.reports = {} /\ out.exit = 1)
           /\ out.error = "none" =>
                  \A p \in Files(tree) :
                      /\ TopLevel(p) => ~Reported(p)
                      /\ (Stray(p) /\ ~TopLevel(p)) =>
                             IF Suffix(Name(p)) = ".pyc"
                                \/ \E k \in 1..Len(p) : p[k] = "__pycache__"
                             THEN ~Reported(p)
                             ELSE /\ <<"shouldn't exist", p>> \in out.reports
                                  /\ out.exit = 1
    /\ out.cmd = "fix" =>
           /\ out.error # "none" =>
                  (out.exit = 1 /\ \A p \in Files(out.before) : IsFile(tree, p))
           /\ out.error = "none" =>
                  \A p \in Files(out.before) :
                      /\ TopLevel(p) => IsFile(tree, p)
                      /\ (Stray(p) /\ ~TopLevel(p)) => ~IsFile(tree, p)

C6_Witness ==
    /\ out.cmd = "fix" /\ out.error = "none"
    /\ \E p \in Files(out.before) :
           Stray(p) /\ ~TopLevel(p) /\ Suffix(Name(p)) = ".pyc" /\ ~IsFile(tree, p)
    /\ \E p \in Files(out.before) : Stray(p) /\ TopLevel(p) /\ IsFile(tree, p)

\* C10: fix is all-or-nothing with respect to alias collisions: when a
\* destination package of the Registry has an alias-name collision, fix
\* exits with status 1 and leaves the tree as it found it.
C10_AllOrNothing ==
    (out.cmd = "fix" /\ HasCollision(collect_aliases))
        => (out.exit = 1 /\ tree = out.before)

(***************************************************************************)
(* Properties of the generator (specification GenSpec).                   *)
(***************************************************************************)
\* C3: determinism: registering the same declarations in another order
\* does not change whether collect_managed returns, nor the mapping of
\* managed file path to text it returns.
C3_Deterministic ==
    managed # NotCalled =>
        \A regs \in Reorderings(registered) :
            LET other == collect_managed_of(get_modules(regs))
            IN  /\ (other.error = "none") <=> (managed.error = "none")
                /\ AsMapping(other.files) = AsMapping(managed.files)

C3_Witness ==
    /\ managed # NotCalled /\ managed.error = "none"
    /\ \E n \in 1..Len(collect_aliases) :
           /\ Len(collect_aliases[n][2]) >= 2
           /\ SortImports(collect_aliases[n][2]).list # collect_aliases[n][2]

\* C4: collision detection: when two declarations of one destination
\* package resolve to the same exported name, generation fails, with exit
\* status 1, and returns no content (the claim asks further that the
\* failure be the collision error; already the failure is missing).
C4_CollisionDetected ==
    (managed # NotCalled /\ HasCollision(collect_aliases))
        => /\ managed.error # "none"
           /\ ExitStatus(managed.error, TRUE) = 1
           /\ managed.files = <<>>

\* C7: deprecated bindings: for every declaration flagged deprecated,
\* generation succeeds and the file of its package holds the line
\* alias = hopsworks.internal.aliases.deprecated(...)(f.i), the call
\* carrying available_until="<value>" when a value is supplied and nothing
\* otherwise.
C7_DeprecatedBindings ==
    managed # NotCalled =>
        \A n \in 1..Len(collect_aliases) :
            \A k \in 1..Len(collect_aliases[n][2]) :
                LET f == collect_aliases[n][2][k][1]
                    i == collect_aliases[n][2][k][2]
                    im == collect_aliases[n][2][k][3]
                    until == IF Truthy(im.available_until)
                             THEN "available_until=\"" \o im.available_until \o "\""
                             ELSE ""
                    line == AliasName(i, im) \o " = hopsworks.internal.aliases.deprecated("
                            \o until \o ")(" \o f \o "." \o i \o ")"
                    path == PkgPath(collect_aliases[n][1])
                IN  im.deprecated =>
                        /\ managed.error = "none"
                        /\ path \in DictKeys(managed.files)
                        /\ InSeq(line, Lines(DictGet(managed.files, path)))

\* C8: layout, as claimed: after the two header lines come the import
\* lines, no module imported twice, and after them the assignment lines, so
\* that no import follows an assignment; no blank line, a newline at the end.
C8_Layout ==
    \A text \in GeneratedTexts :
        /\ WellFramed(Lines(text))
        /\ ImportsOnce(Body(Lines(text)))
        /\ ImportsThenAssignments(Body(Lines(text)))

\* C8, amended: after the two header lines every line is an import line or
\* an assignment line; no module is imported twice, and every assignment
\* refers to a module that an earlier line imports (the import lines are
\* interleaved with the assignment lines, not gathered before them); no
\* blank line, a newline at the end.
C8_LayoutAmended ==
    \A text \in GeneratedTexts :
        /\ WellFramed(Lines(text))
        /\ ImportsOnce(Body(Lines(text)))
        /\ ImportedBeforeUse(Body(Lines(text)))

C8_Witness ==
    \E text \in GeneratedTexts :
        \E a, b \in 1..Len(Body(Lines(text))) :
            /\ a < b
            /\ IsAssignment(Body(Lines(text))[a])
            /\ IsImport(Body(Lines(text))[b])

(***************************************************************************)
(* Property of the feature group (specification FgSpec).                  *)
(***************************************************************************)
\* C9: multi-part insert cache: on a stream feature group, once one or
\* more inserts were made under the multi-part flag, the Kafka resources
\* were initialized exactly once; until finalization the flag is up, the
\* producer, headers, feature writers and writer are cached and nothing
\* was flushed; after finalization the producer was flushed exactly once,
\* the flag is down and the four cached fields are None.
C9_CacheLifecycle ==
    (fg.stream /\ fg.session_inserts >= 1) =>
        /\ fg.session_inits = 1
        /\ IF fg.multi_part_insert
           THEN /\ fg.kafka_producer # None /\ fg.kafka_headers # None
                /\ fg.feature_writers # None /\ fg.writer # None
                /\ fg.session_flushes = 0
           ELSE /\ fg.kafka_producer = None /\ fg.kafka_headers = None
                /\ fg.feature_writers = None /\ fg.writer = None
                /\ fg.session_flushes = 1

C9_Witness ==
    /\ fg.stream /\ ~fg.multi_part_insert
    /\ fg.session_inserts >= 2 /\ fg.session_flushes = 1

============================================================================
